---------------------------- MODULE Spec2Model ----------------------------
(***************************************************************************)
(* HMM part-of-speech tagger of "CS4248 NLP/Assignments/Assignment 1/      *)
(* runtagger.py": viterbi, backtrack_viterbi_matrix and tag_sentence.      *)
(*                                                                         *)
(* Representation.                                                         *)
(*  - A Python str is a sequence of one-character strings; a tag label is  *)
(*    a single character, except the sentinel "RDM" of the backtracker.    *)
(*  - A Python dict is a sequence of <<key, value>> pairs in insertion     *)
(*    order (dicts iterate in insertion order); the model tables, which    *)
(*    the code only indexes and never iterates, are functions.             *)
(*  - A log-probability (a Python float) is an integer number of           *)
(*    thousandths of a nat; math.log is the table LnMilli.                 *)
(*  - A raised exception moves pc to "raised" and records its type in exc. *)
(***************************************************************************)
EXTENDS Integers, Sequences, FiniteSets

VARIABLES
    pc,                          \* position in the program
    exc,                         \* type of the exception raised, or "none"
    caller,                      \* who called viterbi: "direct" or "tag_sentence"
    modelFile,                   \* the parsed lines of the model file
    testFile,                    \* the lines of the test file
    outFile,                     \* the lines written to the output file
    outOpened,                   \* whether the output file has been opened ('w')
    vocabulary_len, states,      \* the loaded model (arguments of viterbi)
    initial_state_probability, transition_probability, emission_probability,
    result, lineNo,              \* locals of tag_sentence
    observation,                 \* argument of viterbi
    unknown_word_prob, unknown_state_prob, V, t, si,   \* locals of viterbi
    tags, output,
    transition_lookups           \* number of transition_probability lookups made

modelVars == <<vocabulary_len, states, initial_state_probability,
               transition_probability, emission_probability>>
fileVars == <<modelFile, testFile, outFile, outOpened>>
taggerVars == <<result, lineNo>>
viterbiVars == <<observation, unknown_word_prob, unknown_state_prob, V, t, si,
                 tags, output, transition_lookups>>
vars == <<pc, exc, caller, fileVars, modelVars, taggerVars, viterbiVars>>

-----------------------------------------------------------------------------
(* Bounds of the model *)

MaxLen == 3          \* longest observation passed directly to viterbi
MaxLines == 2        \* most lines in a test file

-----------------------------------------------------------------------------
(* Python values *)

None == "None"
PROBABILITY == "probability"
BACKPOINTER == "backpointer"
KInverse == 100      \* K = 0.01 = 1 / KInverse

Range(s) == {s[i] : i \in 1..Len(s)}

SetMax(X) == CHOOSE x \in X : \A y \in X : y <= x
SetMin(X) == CHOOSE x \in X : \A y \in X : x <= y

\* (mutant of Get) a missing key yields 0, not the default
GetOrZero(d, key, default) == IF key \in DOMAIN d THEN d[key] ELSE 0

\* d.get(key, default) on a model table
Get(d, key, default) == IF key \in DOMAIN d THEN d[key] ELSE default

\* An insertion-ordered dict: a sequence of <<key, value>> pairs.
DictKeys(d) == [i \in 1..Len(d) |-> d[i][1]]
DictHas(d, key) == \E i \in 1..Len(d) : d[i][1] = key
DictGet(d, key) == d[CHOOSE i \in 1..Len(d) : d[i][1] = key][2]
\* (mutant of DictSet) always appends, also when the key exists
DictSetAppend(d, key, value) == Append(d, <<key, value>>)

\* d[key] = value: replaces in place, or appends a new key
DictSet(d, key, value) ==
    IF DictHas(d, key)
    THEN [i \in 1..Len(d) |-> IF d[i][1] = key THEN <<key, value>> ELSE d[i]]
    ELSE Append(d, <<key, value>>)

\* math.log, in thousandths of a nat, of the counts the model uses
LnMilli(n) ==
    CASE n = 1 -> 0
      [] n = 2 -> 693
      [] n = 3 -> 1099
      [] n = 4 -> 1386
      [] n = 5 -> 1609
      [] n = 10 -> 2303
      [] n = 100 -> 4605

\* math.log(1/count * K) for count >= 1
UnknownLogProb(count) == 0 - (LnMilli(count) + LnMilli(KInverse))

\* (mutant of SeqMax) the comparison is turned around
RECURSIVE SeqMaxFlipped(_)
SeqMaxFlipped(s) ==
    IF Len(s) = 1 THEN s[1]
    ELSE LET m == SeqMaxFlipped(Tail(s)) IN IF s[1] <= m THEN s[1] ELSE m

RECURSIVE SeqMax(_)
SeqMax(s) ==
    IF Len(s) = 1 THEN s[1]
    ELSE LET m == SeqMax(Tail(s)) IN IF s[1] >= m THEN s[1] ELSE m

-----------------------------------------------------------------------------
(* viterbi, lines 15-55 *)

\* V[t-1][prev_state][PROBABILITY] +
\*     transition_probability[prev_state].get(state, unknown_state_prob)
Candidate(Vprev, prev_state, state, usp) ==
    DictGet(Vprev, prev_state)[PROBABILITY]
        + Get(transition_probability[prev_state], state, usp)

\* the list comprehension of lines 34-36
Probs(Vprev, state, usp) ==
    [i \in 1..Len(states) |-> Candidate(Vprev, states[i], state, usp)]

\* (mutant of AssignMatching) the loop breaks at the first match
RECURSIVE AssignFirstMatching(_, _, _, _, _, _, _)
AssignFirstMatching(row, i, Vprev, state, max_transition_prob, max_emission_prob, usp) ==
    IF i > Len(states) THEN row
    ELSE IF Candidate(Vprev, states[i], state, usp) = max_transition_prob
    THEN DictSet(row, state, [probability |-> max_emission_prob,
                              backpointer |-> states[i]])
    ELSE AssignFirstMatching(row, i + 1, Vprev, state, max_transition_prob,
                             max_emission_prob, usp)

\* (mutant of AssignMatching) the comparison with the maximum is left out:
\* every previous state assigns V[t][state]
RECURSIVE AssignAnyPredecessor(_, _, _, _, _, _, _)
AssignAnyPredecessor(row, i, Vprev, state, max_transition_prob, max_emission_prob, usp) ==
    IF i > Len(states) THEN row
    ELSE AssignAnyPredecessor(
            DictSet(row, state, [probability |-> max_emission_prob,
                                 backpointer |-> states[i]]),
            i + 1, Vprev, state, max_transition_prob, max_emission_prob, usp)

\* the loop of lines 42-47, from the i-th previous state on: every previous
\* state whose candidate equals the maximum assigns V[t][state] (no break)
RECURSIVE AssignMatching(_, _, _, _, _, _, _)
AssignMatching(row, i, Vprev, state, max_transition_prob, max_emission_prob, usp) ==
    IF i > Len(states) THEN row
    ELSE AssignMatching(
            IF Candidate(Vprev, states[i], state, usp) = max_transition_prob
            THEN DictSet(row, state, [probability |-> max_emission_prob,
                                      backpointer |-> states[i]])
            ELSE row,
            i + 1, Vprev, state, max_transition_prob, max_emission_prob, usp)

\* the body of the loop over states at step t >= 1, lines 34-47
StepCell(row, Vprev, state, token, uwp, usp) ==
    LET max_transition_prob == SeqMax(Probs(Vprev, state, usp))
        max_emission_prob == max_transition_prob
                                + Get(emission_probability[state], token, uwp)
    IN AssignMatching(row, 1, Vprev, state, max_transition_prob,
                      max_emission_prob, usp)

\* (mutant of FirstCell) the emission term is left out
FirstCellNoEmission(row, state, token, uwp) ==
    DictSet(row, state,
            [probability |-> initial_state_probability[state],
             backpointer |-> None])

\* the body of the loop over states at step 0, lines 24-28
FirstCell(row, state, token, uwp) ==
    DictSet(row, state,
            [probability |-> initial_state_probability[state]
                                + Get(emission_probability[state], token, uwp),
             backpointer |-> None])

Raise(e) ==
    /\ pc' = "raised"
    /\ exc' = e

\* lines 18-21
VStart ==
    /\ pc = "viterbi"
    /\ IF vocabulary_len = 0
       THEN Raise("ZeroDivisionError") /\ UNCHANGED viterbiVars
       ELSE IF vocabulary_len < 0
       THEN Raise("ValueError") /\ UNCHANGED viterbiVars
       ELSE IF Len(states) = 0
       THEN Raise("ZeroDivisionError") /\ UNCHANGED viterbiVars
       ELSE /\ unknown_word_prob' = UnknownLogProb(vocabulary_len)
            /\ unknown_state_prob' = UnknownLogProb(Len(states))
            /\ V' = << <<>> >>
            /\ si' = 1
            /\ t' = 0
            /\ tags' = <<>>
            /\ output' = <<>>
            /\ transition_lookups' = 0
            /\ pc' = "row0"
            /\ UNCHANGED <<exc, observation>>
    /\ UNCHANGED <<caller, fileVars, modelVars, taggerVars>>

\* (mutant of VRow0) an empty observation is let through and viterbi
\* returns the empty output
VRow0EmptyTolerant ==
    /\ pc = "row0"
    /\ LET state == states[si] IN
       IF \/ state \notin DOMAIN initial_state_probability
          \/ state \notin DOMAIN emission_probability
       THEN Raise("KeyError") /\ UNCHANGED <<V, si, t>>
       ELSE IF Len(observation) = 0
       THEN pc' = "done" /\ exc' = exc /\ UNCHANGED <<V, si, t>>
       ELSE /\ V' = [V EXCEPT ![1] = FirstCell(@, state, observation[1],
                                               unknown_word_prob)]
            /\ IF si < Len(states)
               THEN si' = si + 1 /\ t' = t /\ pc' = "row0"
               ELSE /\ si' = 1
                    /\ t' = 1
                    /\ pc' = IF 1 < Len(observation) THEN "step" ELSE "backtrack"
            /\ exc' = exc
    /\ UNCHANGED <<caller, fileVars, modelVars, taggerVars, observation,
                   unknown_word_prob, unknown_state_prob, tags, output,
                   transition_lookups>>

\* lines 23-28, one state per step; after the last state, line 30
VRow0 ==
    /\ pc = "row0"
    /\ LET state == states[si] IN
       IF \/ state \notin DOMAIN initial_state_probability
          \/ state \notin DOMAIN emission_probability
       THEN Raise("KeyError") /\ UNCHANGED <<V, si, t>>
       ELSE IF Len(observation) = 0
       THEN Raise("IndexError") /\ UNCHANGED <<V, si, t>>
       ELSE /\ V' = [V EXCEPT ![1] = FirstCell(@, state, observation[1],
                                               unknown_word_prob)]
            /\ IF si < Len(states)
               THEN si' = si + 1 /\ t' = t /\ pc' = "row0"
               ELSE /\ si' = 1
                    /\ t' = 1
                    /\ pc' = IF 1 < Len(observation) THEN "step" ELSE "backtrack"
            /\ exc' = exc
    /\ UNCHANGED <<caller, fileVars, modelVars, taggerVars, observation,
                   unknown_word_prob, unknown_state_prob, tags, output,
                   transition_lookups>>

\* lines 30-47, one state per step (V.append({}) before the first state);
\* t counts from 0 as in the code, V[t] of the code is V[t + 1] here
VStep ==
    /\ pc = "step"
    /\ LET state == states[si]
           Vt == IF si = 1 THEN Append(V, <<>>) ELSE V
       IN
       IF \E i \in 1..Len(states) : states[i] \notin DOMAIN transition_probability
       THEN Raise("KeyError") /\ V' = Vt /\ UNCHANGED <<si, t, transition_lookups>>
       ELSE /\ V' = [Vt EXCEPT ![t + 1] =
                        StepCell(@, Vt[t], state, observation[t + 1],
                                 unknown_word_prob, unknown_state_prob)]
            /\ transition_lookups' = transition_lookups + 2 * Len(states)
            /\ IF si < Len(states)
               THEN si' = si + 1 /\ t' = t /\ pc' = "step"
               ELSE /\ si' = 1
                    /\ t' = t + 1
                    /\ pc' = IF t + 1 < Len(observation) THEN "step" ELSE "backtrack"
            /\ exc' = exc
    /\ UNCHANGED <<caller, fileVars, modelVars, taggerVars, observation,
                   unknown_word_prob, unknown_state_prob, tags, output>>

-----------------------------------------------------------------------------
(* backtrack_viterbi_matrix, lines 58-74 *)

\* stage[PROBABILITY] for stage in V[-1].values()
RowProbs(row) == [i \in 1..Len(row) |-> row[i][2][PROBABILITY]]

\* (mutant of FirstAtMax) the last stage at the maximum, as without the break
LastAtMax(row, max_probability) ==
    IF \E i \in 1..Len(row) : row[i][2][PROBABILITY] = max_probability
    THEN CHOOSE i \in 1..Len(row) :
            /\ row[i][2][PROBABILITY] = max_probability
            /\ \A j \in (i + 1)..Len(row) : row[j][2][PROBABILITY] # max_probability
    ELSE 0

\* lines 63-67: the position in V[-1].items() of the first stage whose
\* probability equals max_probability, 0 when the loop ends without a break
FirstAtMax(row, max_probability) ==
    IF \E i \in 1..Len(row) : row[i][2][PROBABILITY] = max_probability
    THEN CHOOSE i \in 1..Len(row) :
            /\ row[i][2][PROBABILITY] = max_probability
            /\ \A j \in 1..(i - 1) : row[j][2][PROBABILITY] # max_probability
    ELSE 0

\* (mutant of BackWalk) the backpointer is read one step too early,
\* V[t][pre_tag] instead of V[t+1][pre_tag]
RECURSIVE BackWalkOffByOne(_, _, _, _)
BackWalkOffByOne(Vm, k, pre_tag, acc) ==
    IF k < 1 THEN [ok |-> TRUE, tags |-> acc]
    ELSE IF ~DictHas(Vm[k], pre_tag) THEN [ok |-> FALSE, tags |-> acc]
    ELSE LET x == DictGet(Vm[k], pre_tag)[BACKPOINTER]
         IN BackWalkOffByOne(Vm, k - 1, x, Append(acc, x))

\* lines 69-72, for t = k - 1 down to 0 (V[t+1] of the code is Vm[k + 1]):
\* the tags appended, or <<"KeyError">> when V[t+1][pre_tag] does not exist
RECURSIVE BackWalk(_, _, _, _)
BackWalk(Vm, k, pre_tag, acc) ==
    IF k < 1 THEN [ok |-> TRUE, tags |-> acc]
    ELSE IF ~DictHas(Vm[k + 1], pre_tag) THEN [ok |-> FALSE, tags |-> acc]
    ELSE LET x == DictGet(Vm[k + 1], pre_tag)[BACKPOINTER]
         IN BackWalk(Vm, k - 1, x, Append(acc, x))

\* (mutant of Reverse) the tags stay in the order of the walk
NotReversed(s) == s

\* tags[::-1]
Reverse(s) == [i \in 1..Len(s) |-> s[Len(s) + 1 - i]]

\* the whole function on a trellis whose last row is not empty:
\* [ok |-> the walk raised nothing, tags |-> tags[::-1]]
BacktrackViterbiMatrix(Vm) ==
    LET last == Vm[Len(Vm)]
        max_probability == SeqMax(RowProbs(last))
        first == FirstAtMax(last, max_probability)
        pre_tag == IF first = 0 THEN "RDM" ELSE last[first][1]
        start == IF first = 0 THEN <<>> ELSE <<pre_tag>>
        walk == BackWalk(Vm, Len(Vm) - 1, pre_tag, start)
    IN [ok |-> walk.ok, tags |-> Reverse(walk.tags)]

\* line 49
VBacktrack ==
    /\ pc = "backtrack"
    /\ IF Len(V[Len(V)]) = 0
       THEN Raise("ValueError") /\ tags' = tags       \* max() of an empty sequence
       ELSE LET r == BacktrackViterbiMatrix(V) IN
            IF r.ok
            THEN tags' = r.tags /\ pc' = "format" /\ exc' = exc
            ELSE Raise("KeyError") /\ tags' = tags
    /\ UNCHANGED <<caller, fileVars, modelVars, taggerVars, observation,
                   unknown_word_prob, unknown_state_prob, V, t, si, output,
                   transition_lookups>>

-----------------------------------------------------------------------------
(* viterbi, lines 50-55 *)

\* a tag label as a str
TagStr(tag) == IF tag = "RDM" THEN <<"R", "D", "M">> ELSE <<tag>>

\* lines 52-53, from the i-th token on
RECURSIVE FormatFrom(_, _, _)
FormatFrom(obs, tgs, i) ==
    IF i > Len(obs) THEN <<>>
    ELSE obs[i] \o <<"/">> \o TagStr(tgs[i]) \o <<" ">> \o FormatFrom(obs, tgs, i + 1)

\* output[:-1]
DropLast(s) == IF Len(s) = 0 THEN s ELSE SubSeq(s, 1, Len(s) - 1)

\* lines 50-55
FormatOutput(obs, tgs) == DropLast(FormatFrom(obs, tgs, 1))

\* (mutant of AppendResult) the output is put in front
PrependResult(res, out) == <<out>> \o res

\* line 98: result.append(output)
AppendResult(res, out) == Append(res, out)

\* lines 50-55, and the return to the caller (lines 95-98 in tag_sentence)
VFormat ==
    /\ pc = "format"
    /\ IF Len(tags) < Len(observation)
       THEN Raise("IndexError") /\ UNCHANGED <<output, result, lineNo>>
       ELSE IF \E i \in 1..Len(observation) : tags[i] = None
       THEN Raise("TypeError") /\ UNCHANGED <<output, result, lineNo>>
       ELSE /\ output' = FormatOutput(observation, tags)
            /\ exc' = exc
            /\ IF caller = "tag_sentence"
               THEN /\ result' = AppendResult(result, output')
                    /\ lineNo' = lineNo + 1
                    /\ pc' = "lines"
               ELSE /\ pc' = "done"
                    /\ UNCHANGED <<result, lineNo>>
    /\ UNCHANGED <<caller, fileVars, modelVars, observation,
                   unknown_word_prob, unknown_state_prob, V, t, si, tags,
                   transition_lookups>>

-----------------------------------------------------------------------------
(* tag_sentence, lines 77-106 *)

Whitespace == {" ", "\t", "\n"}

\* str.strip(): leading and trailing whitespace removed
RECURSIVE LStrip(_)
LStrip(s) == IF Len(s) > 0 /\ s[1] \in Whitespace THEN LStrip(Tail(s)) ELSE s

RECURSIVE RStrip(_)
RStrip(s) ==
    IF Len(s) > 0 /\ s[Len(s)] \in Whitespace
    THEN RStrip(SubSeq(s, 1, Len(s) - 1))
    ELSE s

Strip(s) == LStrip(RStrip(s))

\* str.split(" "): cut at every single space, empty pieces kept;
\* cur is the piece collected so far
RECURSIVE SplitFrom(_, _, _)
SplitFrom(s, i, cur) ==
    IF i > Len(s) THEN <<cur>>
    ELSE IF s[i] = " " THEN <<cur>> \o SplitFrom(s, i + 1, <<>>)
    ELSE SplitFrom(s, i + 1, Append(cur, s[i]))

SplitSpace(s) == SplitFrom(s, 1, <<>>)

\* line 94
ObservationOf(line) == SplitSpace(Strip(line))

\* (mutant of TLoad) the output file is opened while the model is read
TLoadOpensOutput ==
    /\ pc = "load"
    /\ outOpened' = TRUE
    /\ outFile' = <<>>
    /\ IF Len(modelFile) < 5
       THEN Raise("IndexError") /\ UNCHANGED <<modelVars, lineNo>>
       ELSE /\ vocabulary_len' = modelFile[1]
            /\ states' = modelFile[2]
            /\ initial_state_probability' = modelFile[3]
            /\ transition_probability' = modelFile[4]
            /\ emission_probability' = modelFile[5]
            /\ lineNo' = 1
            /\ pc' = "lines"
            /\ exc' = exc
    /\ UNCHANGED <<caller, modelFile, testFile, result, viterbiVars>>

\* lines 82-89: the five lines of the model file, parsed
TLoad ==
    /\ pc = "load"
    /\ IF Len(modelFile) < 5
       THEN Raise("IndexError") /\ UNCHANGED <<modelVars, lineNo>>
       ELSE /\ vocabulary_len' = modelFile[1]
            /\ states' = modelFile[2]
            /\ initial_state_probability' = modelFile[3]
            /\ transition_probability' = modelFile[4]
            /\ emission_probability' = modelFile[5]
            /\ lineNo' = 1
            /\ pc' = "lines"
            /\ exc' = exc
    /\ UNCHANGED <<caller, fileVars, result, viterbiVars>>

\* lines 93-95: the next line of the test file and the call of viterbi,
\* or the end of the loop
TLine ==
    /\ pc = "lines"
    /\ IF lineNo <= Len(testFile)
       THEN /\ observation' = ObservationOf(testFile[lineNo])
            /\ pc' = "viterbi"
       ELSE /\ observation' = observation
            /\ pc' = "write"
    /\ UNCHANGED <<exc, caller, fileVars, modelVars, taggerVars,
                   unknown_word_prob, unknown_state_prob, V, t, si, tags,
                   output, transition_lookups>>

\* lines 101-104: open(out_file, 'w') truncates; one line and '\n' per result
TWrite ==
    /\ pc = "write"
    /\ outOpened' = TRUE
    /\ outFile' = [i \in 1..Len(result) |-> result[i] \o <<"\n">>]
    /\ pc' = "done"
    /\ UNCHANGED <<exc, caller, modelFile, testFile, modelVars, taggerVars,
                   viterbiVars>>

-----------------------------------------------------------------------------
(* Inputs *)

\* the tags a model may declare, and its orderings of them
Tags == {"N", "V"}
StateOrders ==
    {<<>>} \cup {<<x>> : x \in Tags}
           \cup {st \in [1..2 -> Tags] : st[1] # st[2]}

\* log-probabilities of the tables: log(1/2) and log(1/4)
LogProbs == {0 - LnMilli(2), 0 - LnMilli(4)}

\* the tokens of the emission tables, and the tokens of observations
KnownTokens == {<<"a">>}
ObsTokens == {<<"a">>, <<"b">>}

\* a table row: a dict with some of the keys
Rows(keys, values) == UNION {[X -> values] : X \in SUBSET keys}

\* the parsed model files over the given vocabulary sizes, state lists and
\* values: every initial and transition table over the values, every
\* emission table over the largest value
ModelsOver(vocabs, orders, values) ==
    UNION { { <<v, st, ini, tr, em>> :
                v \in vocabs,
                ini \in [Range(st) -> values],
                tr \in [Range(st) -> Rows(Range(st), values)],
                em \in [Range(st) -> Rows(KnownTokens, {SetMax(values)})] }
            : st \in orders }

\* a table without the keys outside keep
Restrict(table, keep) == [k \in DOMAIN table \cap keep |-> table[k]]

\* model files whose tables lack a tag of the state list, or whose
\* vocabulary size is 0
MalformedOver(base) ==
    UNION { { <<0, m[2], m[3], m[4], m[5]>> }
            \cup { <<m[1], m[2], Restrict(m[3], X), m[4], m[5]>> : X \in (SUBSET Range(m[2])) \ {Range(m[2])} }
            \cup { <<m[1], m[2], m[3], Restrict(m[4], X), m[5]>> : X \in (SUBSET Range(m[2])) \ {Range(m[2])} }
            \cup { <<m[1], m[2], m[3], m[4], Restrict(m[5], X)>> : X \in (SUBSET Range(m[2])) \ {Range(m[2])} }
            : m \in base }

\* the tables over keys with at most one entry in all, of the largest value
SparseTables(keys, inner, values) ==
    {[k \in keys |-> [x \in {} |-> 0]]}
        \cup {[k \in keys |-> IF k = p THEN [x \in {q} |-> SetMax(values)]
                                        ELSE [x \in {} |-> 0]]
                : p \in keys, q \in inner}

\* the model files with a third tag: every initial table, sparse transition
\* and emission tables (most lookups fall back, so ties abound)
ThreeStates == <<"N", "V", "J">>
SparseModels ==
    { <<10, ThreeStates, ini, tr, em>> :
        ini \in [Range(ThreeStates) -> LogProbs],
        tr \in SparseTables(Range(ThreeStates), Range(ThreeStates), LogProbs),
        em \in SparseTables(Range(ThreeStates), KnownTokens, LogProbs) }

WellFormedModels ==
    ModelsOver({10}, StateOrders \ {<<>>}, LogProbs) \cup SparseModels
Models ==
    WellFormedModels
        \cup ModelsOver({10}, {<<>>}, LogProbs)
        \cup MalformedOver(ModelsOver({10}, {<<"N", "V">>}, {0 - LnMilli(2)}))

SeqsUpTo(S, n) == UNION {[1..k -> S] : k \in 0..n}

Observations == SeqsUpTo(ObsTokens, MaxLen)

OldOutput == << <<"o", "l", "d", "\n">> >>

\* what both entry points start from
InitCommon ==
    /\ exc = "none"
    /\ outFile = OldOutput
    /\ outOpened = FALSE
    /\ result = <<>>
    /\ lineNo = 0
    /\ unknown_word_prob = 0
    /\ unknown_state_prob = 0
    /\ V = <<>>
    /\ t = 0
    /\ si = 0
    /\ tags = <<>>
    /\ output = <<>>
    /\ transition_lookups = 0

\* viterbi called with a model and an observation
Init ==
    /\ InitCommon
    /\ pc = "viterbi"
    /\ caller = "direct"
    /\ modelFile = <<>>
    /\ testFile = <<>>
    /\ \E m \in Models :
        /\ vocabulary_len = m[1]
        /\ states = m[2]
        /\ initial_state_probability = m[3]
        /\ transition_probability = m[4]
        /\ emission_probability = m[5]
    /\ observation \in Observations

Next ==
    \/ VStart
    \/ VRow0
    \/ VStep
    \/ VBacktrack
    \/ VFormat

Spec == Init /\ [][Next]_vars

\* tag_sentence run on a model file and a test file

Line(chars) == chars \o <<"\n">>

\* the lines of test files: one token, two tokens, a double space, a blank
\* line, a tab between letters, leading and trailing spaces
TaggerLines ==
    { Line(<<"a">>), Line(<<"b", " ", "a">>), Line(<<"a", " ", " ", "b">>),
      Line(<<>>), Line(<<"a", "\t", "b">>), Line(<<" ", "a", " ">>) }

\* the model whose rows all hold every key, the base of the malformed ones
FullRows(m) ==
    /\ \A k \in DOMAIN m[4] : DOMAIN m[4][k] = Range(m[2])
    /\ \A k \in DOMAIN m[5] : DOMAIN m[5][k] = KnownTokens

TaggerWellFormed == ModelsOver({10}, {<<"N", "V">>}, {0 - LnMilli(2)})

\* well-formed model files, files whose tables lack a tag, truncated files
TaggerModelFiles ==
    TaggerWellFormed
        \cup MalformedOver({m \in TaggerWellFormed : FullRows(m)})
        \cup UNION { {SubSeq(m, 1, k) : k \in 0..4}
                     : m \in {x \in TaggerWellFormed : FullRows(x)} }

InitTaggerCommon ==
    /\ InitCommon
    /\ pc = "load"
    /\ caller = "tag_sentence"
    /\ vocabulary_len = 0
    /\ states = <<>>
    /\ initial_state_probability = <<>>
    /\ transition_probability = <<>>
    /\ emission_probability = <<>>
    /\ observation = <<>>

InitTagger ==
    /\ InitTaggerCommon
    /\ modelFile \in TaggerModelFiles
    /\ testFile \in SeqsUpTo(TaggerLines, MaxLines)

NextTagger ==
    \/ TLoad
    \/ TLine
    \/ VStart
    \/ VRow0
    \/ VStep
    \/ VBacktrack
    \/ VFormat
    \/ TWrite

SpecTagger == InitTagger /\ [][NextTagger]_vars

\* tag_sentence run on the model of the concrete scenario

\* math.log(d / 10) in thousandths of a nat
LnTenths(d) ==
    CASE d = 1 -> -2303
      [] d = 3 -> -1204
      [] d = 4 -> -916
      [] d = 5 -> -693
      [] d = 6 -> -511
      [] d = 7 -> -357
      [] d = 9 -> -105

dog == <<"d", "o", "g">>
run == <<"r", "u", "n">>
cat == <<"c", "a", "t">>

ScenarioModel ==
    << 10,
       <<"N", "V">>,
       [x \in {"N", "V"} |-> IF x = "N" THEN LnTenths(6) ELSE LnTenths(4)],
       [x \in {"N", "V"} |->
          IF x = "N"
          THEN [y \in {"N", "V"} |-> IF y = "V" THEN LnTenths(7) ELSE LnTenths(3)]
          ELSE [y \in {"N", "V"} |-> IF y = "N" THEN LnTenths(9) ELSE LnTenths(1)]],
       [x \in {"N", "V"} |->
          IF x = "N" THEN [w \in {dog} |-> LnTenths(5)]
                     ELSE [w \in {run} |-> LnTenths(6)]] >>

ScenarioLines ==
    { Line(dog \o <<" ">> \o run), Line(run \o <<" ">> \o dog), Line(dog),
      Line(cat \o <<" ">> \o run \o <<" ">> \o dog) }

InitScenario ==
    /\ InitTaggerCommon
    /\ modelFile = ScenarioModel
    /\ testFile \in SeqsUpTo(ScenarioLines, MaxLines)

SpecScenario == InitScenario /\ [][NextTagger]_vars

-----------------------------------------------------------------------------
(* Properties of a decode *)

n == Len(observation)
S == Len(states)

\* every tag of the state list is a key of the three tables, the tags are
\* distinct, and the two counts are positive
WellFormed ==
    /\ vocabulary_len >= 1
    /\ S >= 1
    /\ \A i, j \in 1..S : states[i] = states[j] => i = j
    /\ \A i \in 1..S :
        /\ states[i] \in DOMAIN initial_state_probability
        /\ states[i] \in DOMAIN transition_probability
        /\ states[i] \in DOMAIN emission_probability

\* the lookups with their fallbacks, as the specification states them
EmissionLookup(s, token) ==
    IF token \in DOMAIN emission_probability[s]
    THEN emission_probability[s][token]
    ELSE UnknownLogProb(vocabulary_len)

TransitionLookup(p, s) ==
    IF s \in DOMAIN transition_probability[p]
    THEN transition_probability[p][s]
    ELSE UnknownLogProb(S)

RECURSIVE SumTo(_, _)
SumTo(f, k) == IF k = 0 THEN 0 ELSE f[k] + SumTo(f, k - 1)

\* the score of a tag sequence for the observation
PathScore(path) ==
    initial_state_probability[path[1]]
        + SumTo([i \in 1..n |-> EmissionLookup(path[i], observation[i])], n)
        + SumTo([i \in 1..(n - 1) |-> TransitionLookup(path[i], path[i + 1])], n - 1)

Returned == pc = "done" /\ caller = "direct"

\* C1: the tag sequence viterbi returns has a score at least that of every
\* tag sequence of the same length over the state set.
C1_MostProbable ==
    (Returned /\ n >= 1) =>
        \A path \in [1..n -> Range(states)] : PathScore(path) <= PathScore(tags)

C1_Witness ==
    /\ Returned
    /\ n = 3
    /\ S = 2
    /\ tags[1] # tags[2]
    /\ \E path \in [1..n -> Range(states)] : PathScore(path) < PathScore(tags)

\* C2: after the forward pass the trellis has n steps, each with one cell per
\* state, and the tag sequence of the backtracker has length n.
C2_TrellisShape ==
    /\ (pc \in {"backtrack", "format", "done"} /\ caller = "direct" /\ n >= 1) =>
        /\ Len(V) = n
        /\ \A k \in 1..n : Len(V[k]) = S /\ DictKeys(V[k]) = states
    /\ (pc \in {"format", "done"} /\ caller = "direct" /\ n >= 1) => Len(tags) = n

C2_Witness ==
    /\ Returned
    /\ n = 3
    /\ S = 2
    /\ Len(V) = 3
    /\ Len(tags) = 3


\* the candidate score of predecessor states[i] for state s at step k >= 2
\* of the trellis (step k - 1 of the code)
CandidateAt(k, i, s) ==
    DictGet(V[k - 1], states[i])[PROBABILITY] + TransitionLookup(states[i], s)

\* the positions in the state list of the predecessors at the maximum
TiedAtMax(k, s) ==
    LET best == SetMax({CandidateAt(k, i, s) : i \in 1..S})
    IN {i \in 1..S : CandidateAt(k, i, s) = best}

\* the cells of the trellis at steps after the first: <<k, state, cell>>
LaterCells ==
    UNION { {<<k, V[k][j][1], V[k][j][2]>> : j \in 1..Len(V[k])} : k \in 2..Len(V) }

FinalAtMax ==
    LET prob(i) == DictGet(V[Len(V)], states[i])[PROBABILITY]
        best == SetMax({prob(i) : i \in 1..S})
    IN {i \in 1..S : prob(i) = best}

\* C4: the last tag is a state at the maximum of the final step, the first
\* such state in the declared state order.
C4_FinalStateFirstAtMax ==
    (pc \in {"format", "done"} /\ caller = "direct" /\ n >= 1) =>
        tags[Len(tags)] = states[SetMin(FinalAtMax)]

C4_Witness ==
    /\ Returned
    /\ n >= 2
    /\ Cardinality(FinalAtMax) >= 2
    /\ tags[Len(tags)] = states[1]

\* C5: for one token no transition lookup is made, the step loop is never
\* entered, and the tag is a state maximising initial + emission lookup.
C5_SingleToken ==
    (caller = "direct" /\ n = 1) =>
        /\ transition_lookups = 0
        /\ pc # "step"
        /\ Len(V) <= 1
        /\ pc = "done" =>
            /\ Len(tags) = 1
            /\ tags[1] \in Range(states)
            /\ \A s \in Range(states) :
                initial_state_probability[s] + EmissionLookup(s, observation[1])
                    <= initial_state_probability[tags[1]]
                           + EmissionLookup(tags[1], observation[1])

C5_Witness ==
    /\ Returned
    /\ n = 1
    /\ S = 2
    /\ tags = <<states[2]>>
    /\ observation[1] \notin DOMAIN emission_probability[states[1]]
    /\ transition_lookups = 0

\* the probability the specification gives the cell of state s at step k
ExpectedProb(k, s) ==
    IF k = 1
    THEN initial_state_probability[s] + EmissionLookup(s, observation[1])
    ELSE SetMax({CandidateAt(k, i, s) : i \in 1..S})
            + EmissionLookup(s, observation[k])

\* C6: with a well-formed model and n >= 1 nothing is raised, the two
\* fallbacks keep the values computed at the start, every cell is computed
\* with the fallback where a lookup has no entry, and what viterbi returns
\* holds a token/tag pair for every token.
C6_FallbackNoError ==
    (caller = "direct" /\ WellFormed /\ n >= 1) =>
        /\ pc # "raised"
        /\ exc = "none"
        /\ pc # "viterbi" =>
            /\ unknown_word_prob = UnknownLogProb(vocabulary_len)
            /\ unknown_state_prob = UnknownLogProb(S)
        /\ \A k \in 1..Len(V) : \A j \in 1..Len(V[k]) :
            V[k][j][2][PROBABILITY] = ExpectedProb(k, V[k][j][1])
        /\ pc = "done" => Len(output) >= 3 * n

C6_Witness ==
    /\ Returned
    /\ WellFormed
    /\ n >= 2
    /\ \E i \in 1..n : \A s \in Range(states) :
            observation[i] \notin DOMAIN emission_probability[s]
    /\ \E i \in 1..(n - 1) : tags[i + 1] \notin DOMAIN transition_probability[tags[i]]
    /\ output # <<>>

\* C9: with an empty observation viterbi never gets past the first cell of
\* the first step: no cell is built, nothing is returned, and the call ends
\* in a raised exception.
C9_EmptyObservationRaises ==
    (caller = "direct" /\ n = 0) =>
        /\ pc \in {"viterbi", "row0", "raised"}
        /\ pc = "row0" => si = 1
        /\ \A k \in 1..Len(V) : V[k] = <<>>
        /\ tags = <<>>
        /\ output = <<>>
        /\ pc = "raised" => exc \in {"IndexError", "KeyError", "ZeroDivisionError"}
        /\ pc # "raised" => ENABLED Next

C9_Witness ==
    /\ caller = "direct"
    /\ n = 0
    /\ WellFormed
    /\ pc = "raised"
    /\ exc = "IndexError"

-----------------------------------------------------------------------------
(* Properties of tag_sentence *)

\* the trellis of an observation decoded alone with the loaded model:
\* the first step from state i on, a later step from state i on, and the
\* steps from the k-th on
RECURSIVE AloneRow0(_, _, _)
AloneRow0(obs, row, i) ==
    IF i > S THEN row
    ELSE AloneRow0(obs, FirstCell(row, states[i], obs[1],
                                  UnknownLogProb(vocabulary_len)), i + 1)

RECURSIVE AloneRow(_, _, _, _, _)
AloneRow(obs, Vprev, k, row, i) ==
    IF i > S THEN row
    ELSE AloneRow(obs, Vprev, k,
                  StepCell(row, Vprev, states[i], obs[k],
                           UnknownLogProb(vocabulary_len), UnknownLogProb(S)),
                  i + 1)

RECURSIVE AloneTrellis(_, _, _)
AloneTrellis(obs, Vm, k) ==
    IF k > Len(obs) THEN Vm
    ELSE AloneTrellis(obs, Append(Vm, AloneRow(obs, Vm[k - 1], k, <<>>, 1)), k + 1)

\* what viterbi returns for one line decoded alone
DecodedAlone(line) ==
    LET obs == ObservationOf(line)
        Vm == AloneTrellis(obs, <<AloneRow0(obs, <<>>, 1)>>, 2)
    IN FormatOutput(obs, BacktrackViterbiMatrix(Vm).tags)

\* C7: k input lines give k output lines, output line i is input line i
\* decoded alone with the loaded model, and the model tables stay as loaded.
C7_LinesIndependent ==
    /\ (caller = "tag_sentence" /\ lineNo >= 1) =>
        /\ <<vocabulary_len, states, initial_state_probability,
             transition_probability, emission_probability>> = modelFile
        /\ pc # "raised" =>
            /\ Len(result) = lineNo - 1
            /\ \A i \in 1..Len(result) : result[i] = DecodedAlone(testFile[i])
    /\ (caller = "tag_sentence" /\ pc = "done") =>
        /\ Len(outFile) = Len(testFile)
        /\ \A i \in 1..Len(testFile) :
            outFile[i] = DecodedAlone(testFile[i]) \o <<"\n">>

C7_Witness ==
    /\ caller = "tag_sentence"
    /\ pc = "done"
    /\ Len(testFile) = 2
    /\ testFile[1] # testFile[2]
    /\ Len(outFile) = 2
    /\ Len(outFile[1]) > Len(outFile[2])

\* C8: with the model of the scenario the line "dog run" gives "dog/N run/V".
C8_DogRun ==
    (caller = "tag_sentence" /\ modelFile = ScenarioModel /\ pc = "done") =>
        \A i \in 1..Len(testFile) :
            testFile[i] = Line(dog \o <<" ">> \o run) =>
                outFile[i] = Line(dog \o <<"/", "N", " ">> \o run \o <<"/", "V">>)

C8_Witness ==
    /\ caller = "tag_sentence"
    /\ modelFile = ScenarioModel
    /\ pc = "done"
    /\ Len(testFile) = 2
    /\ testFile[2] = Line(dog \o <<" ">> \o run)
    /\ outFile[2] = Line(dog \o <<"/", "N", " ">> \o run \o <<"/", "V">>)

\* str.split() without a separator: the maximal runs of non-whitespace
\* characters; cur is the run collected so far
RECURSIVE WhitespaceSplitFrom(_, _, _)
WhitespaceSplitFrom(s, i, cur) ==
    IF i > Len(s) THEN (IF cur = <<>> THEN <<>> ELSE <<cur>>)
    ELSE IF s[i] \in Whitespace
    THEN (IF cur = <<>> THEN <<>> ELSE <<cur>>) \o WhitespaceSplitFrom(s, i + 1, <<>>)
    ELSE WhitespaceSplitFrom(s, i + 1, Append(cur, s[i]))

WhitespaceSplit(s) == WhitespaceSplitFrom(s, 1, <<>>)

\* C10 as claimed: the observation handed to viterbi is the whitespace-split
\* of the line, so no token is empty or holds whitespace, and the output
\* line is those tokens, each with '/' and a tag, joined by single spaces.
C10_WhitespaceSplit ==
    /\ (caller = "tag_sentence" /\ pc = "viterbi") =>
        /\ observation = WhitespaceSplit(testFile[lineNo])
        /\ \A i \in 1..Len(observation) :
            /\ observation[i] # <<>>
            /\ \A j \in 1..Len(observation[i]) : observation[i][j] \notin Whitespace
    /\ (caller = "tag_sentence" /\ pc \in {"lines", "write", "done"}) =>
        \A i \in 1..Len(result) :
            LET toks == WhitespaceSplit(testFile[i])
            IN \E tg \in [1..Len(toks) -> Range(states)] :
                  result[i] = FormatOutput(toks, tg)

-----------------------------------------------------------------------------
(* Malformed models, the trellis, the backtracker, the phases of tag_sentence *)

\* a model file that is truncated, or one of whose tables lacks a tag of
\* the state list
MalformedFile(f) ==
    \/ Len(f) < 5
    \/ \E x \in Range(f[2]) :
        x \notin DOMAIN f[3] \/ x \notin DOMAIN f[4] \/ x \notin DOMAIN f[5]

\* C11 as claimed: with a malformed model file tag_sentence fails while the
\* model is read: it never gets to a line of the test file, and viterbi is
\* never called.
C11_MalformedFailsAtLoad ==
    (caller = "tag_sentence" /\ MalformedFile(modelFile)) =>
        /\ pc \in {"load", "raised"}
        /\ lineNo = 0
        /\ V = <<>>
        /\ result = <<>>

\* C12: in every trellis of a decode with n >= 1 the cells of the first step
\* have backpointer None and probability initial + emission lookup; a cell
\* of a later step has probability (maximum candidate) + emission lookup
\* and a backpointer in the state set whose candidate is that maximum; and
\* after the forward pass every step after the first has a cell per state.
C12_TrellisCells ==
    (caller = "direct" /\ WellFormed /\ n >= 1) =>
        /\ \A j \in 1..(IF Len(V) >= 1 THEN Len(V[1]) ELSE 0) :
            /\ V[1][j][2][BACKPOINTER] = None
            /\ V[1][j][2][PROBABILITY] =
                  initial_state_probability[V[1][j][1]]
                      + EmissionLookup(V[1][j][1], observation[1])
        /\ \A c \in LaterCells :
            LET best == SetMax({CandidateAt(c[1], i, c[2]) : i \in 1..S})
            IN /\ c[3][PROBABILITY] = best + EmissionLookup(c[2], observation[c[1]])
               /\ \E i \in 1..S :
                    /\ c[3][BACKPOINTER] = states[i]
                    /\ CandidateAt(c[1], i, c[2]) = best
        /\ pc \in {"backtrack", "format", "done"} =>
            /\ Len(V) = n
            /\ \A k \in 2..n : \A i \in 1..S : DictHas(V[k], states[i])

C12_Witness ==
    /\ Returned
    /\ WellFormed
    /\ n = 3
    /\ S = 3
    /\ \E c \in LaterCells :
        /\ c[1] = 3
        /\ c[3][BACKPOINTER] = states[2]
        /\ Cardinality(TiedAtMax(c[1], c[2])) = 1

\* C13: backtracking the trellis of a decode with n >= 1 raises nothing,
\* the sentinel "RDM" and None are never among the tags (every tag is a
\* state), and tags[t-1] is the backpointer of cell(t, tags[t]).
C13_BacktrackCannotFail ==
    /\ (caller = "direct" /\ WellFormed /\ n >= 1) => pc # "raised"
    /\ (caller = "direct" /\ n >= 1 /\ pc \in {"format", "done"}) =>
        /\ Len(tags) = n
        /\ \A k \in 1..n : tags[k] \in Range(states) /\ tags[k] \notin {"RDM", None}
        /\ \A k \in 2..n : tags[k - 1] = DictGet(V[k], tags[k])[BACKPOINTER]
        /\ DictGet(V[1], tags[1])[BACKPOINTER] = None

C13_Witness ==
    /\ Returned
    /\ n = 3
    /\ S = 3
    /\ tags[1] # tags[2]
    /\ tags[2] # tags[3]
    /\ tags[2] = DictGet(V[3], tags[3])[BACKPOINTER]

\* C14: the output file is opened only after the model is loaded and every
\* line of the test file is decoded; when loading or a decode raises, the
\* output file is neither opened nor changed.
C14_WriteAfterAllDecoded ==
    caller = "tag_sentence" =>
        /\ outOpened =>
            /\ pc = "done"
            /\ exc = "none"
            /\ lineNo = Len(testFile) + 1
            /\ Len(result) = Len(testFile)
            /\ Len(outFile) = Len(testFile)
        /\ ~outOpened => outFile = OldOutput
        /\ pc = "raised" => ~outOpened
        /\ pc = "write" => Len(result) = Len(testFile)

C14_Witness ==
    /\ caller = "tag_sentence"
    /\ pc = "raised"
    /\ exc = "KeyError"
    /\ lineNo = 2
    /\ Len(result) = 1
    /\ ~outOpened
    /\ outFile = OldOutput

=============================================================================
